---- MODULE Spec2Model ----
(***************************************************************************)
(* Model of src/js/ripple/autobridgecalculator.js: the AutobridgeCalculator *)
(* that merges two order-book legs through the bridge currency.            *)
(*                                                                         *)
(* Amounts are exact rationals <<numerator, denominator>> in lowest terms  *)
(* with a positive denominator: the canonical text of an Amount.           *)
(***************************************************************************)
EXTENDS Integers, Sequences, FiniteSets, TLC

\* ------------------------------------------------------------------ bounds
\* Longest leg (number of offers) the caller passes in.
MaxLen == 2
\* Largest bridge amount of an input offer (in whole bridge units).
MaxAmt == 3
\* Number of calculate() calls made on one engine instance.
MaxCalls == 2

\* ----------------------------------------------------------------- amounts
Abs(n) == IF n < 0 THEN -n ELSE n

RECURSIVE GCD(_, _)
GCD(a, b) == IF b = 0 THEN a ELSE GCD(b, a % b)

\* Canonical form of n/d, d > 0 (Amount.from_json / to_text round trip).
Canon(n, d) ==
  LET g == GCD(Abs(n), d)
  IN  <<n \div g, d \div g>>

\* Utils.normalizeAmount of a whole number.
normalizeAmount(n) == <<n, 1>>

add(a, b) == Canon(a[1] * b[2] + b[1] * a[2], a[2] * b[2])

subtract(a, b) == Canon(a[1] * b[2] - b[1] * a[2], a[2] * b[2])

multiply(a, b) == Canon(a[1] * b[1], a[2] * b[2])

\* Amount.divide throws on a zero divisor; the callers below only divide by
\* non-zero amounts (see formatAutobridgedOffer).
divide(a, b) ==
  IF b[1] < 0 THEN Canon(-(a[1] * b[2]), a[2] * (-b[1]))
              ELSE Canon(a[1] * b[2], a[2] * b[1])

compareTo(a, b) ==
  LET l == a[1] * b[2]
      r == b[1] * a[2]
  IN  IF l > r THEN 1 ELSE IF l < r THEN -1 ELSE 0

is_zero(a) == a[1] = 0

\* The value JavaScript yields for a property that was never assigned.
Undefined == << >>

\* ------------------------------------------------------------------ offers
Accounts == {"A", "B"}

Engines == {"e1", "e2"}

\* Accessors of orderbookutils.js.
getOfferTakerGetsFunded(offer) == offer.taker_gets_funded

getOfferTakerPaysFunded(offer) == offer.taker_pays_funded

getOfferTakerGets(offer) == offer.TakerGets

getOfferQuality(offer) == offer.quality

\* A leg-one offer (IOU:bridge): gets whole bridge units, pays gets * quality.
LegOneOffer(account, gets, funded, quality) ==
  [Account |-> account,
   TakerGets |-> gets,
   TakerPays |-> multiply(gets, quality),
   quality |-> quality,
   taker_gets_funded |-> funded,
   taker_pays_funded |-> multiply(funded, quality),
   is_fully_funded |-> (funded = gets),
   initTakerGetsFunded |-> Undefined]

\* A leg-two offer (bridge:IOU): pays whole bridge units, gets pays / quality.
LegTwoOffer(account, pays, funded, quality) ==
  [Account |-> account,
   TakerGets |-> divide(pays, quality),
   TakerPays |-> pays,
   quality |-> quality,
   taker_gets_funded |-> divide(funded, quality),
   taker_pays_funded |-> funded,
   is_fully_funded |-> (funded = pays),
   initTakerGetsFunded |-> Undefined]

\* Both legs arrive sorted best quality first: the k-th offer of a leg has
\* the k-th quality of its book.
LegOneQuality(k) == Canon(k, 2)

LegTwoQuality(k) == Canon(k + 1, 1)

LegOneChoices(k) ==
  { LegOneOffer(a, normalizeAmount(g), normalizeAmount(f), LegOneQuality(k)) :
      <<a, g, f>> \in { t \in Accounts \X (1..MaxAmt) \X (0..MaxAmt) : t[3] <= t[2] } }

\* The engine reads only the funded amounts of a leg-two offer, so its offers
\* are either fully funded, for every size, or unfunded.
LegTwoChoices(k) ==
  { LegTwoOffer(a, normalizeAmount(p), normalizeAmount(f), LegTwoQuality(k)) :
      <<a, p, f>> \in { t \in Accounts \X (1..MaxAmt) \X (0..MaxAmt) :
                           t[3] = t[2] \/ (t[3] = 0 /\ t[2] = MaxAmt) } }

RECURSIVE LegsOfLen(_, _, _)
\* Every leg of length n whose k-th offer is drawn from Choices(k); Choices is
\* selected by leg ("one" or "two").
LegsOfLen(leg, n, acc) ==
  IF n = 0 THEN acc
  ELSE LegsOfLen(leg, n - 1,
         { <<o>> \o s : o \in (IF leg = "one" THEN LegOneChoices(n) ELSE LegTwoChoices(n)),
                        s \in acc })

Legs(leg) == UNION { LegsOfLen(leg, n, {<< >>}) : n \in 0..MaxLen }

\* The two scenarios of the documentation: 100 bridge units against 100, and
\* 100 against 40.
ScenarioLegOne ==
  << LegOneOffer("A", normalizeAmount(100), normalizeAmount(100), Canon(1, 2)) >>

ScenarioEqualLegTwo ==
  << LegTwoOffer("B", normalizeAmount(100), normalizeAmount(100), Canon(5, 2)) >>

ScenarioSurplusLegTwo ==
  << LegTwoOffer("B", normalizeAmount(40), normalizeAmount(40), Canon(2, 1)) >>

Inputs ==
  (Legs("one") \X Legs("two"))
    \cup { <<ScenarioLegOne, ScenarioEqualLegTwo>>,
           <<ScenarioLegOne, ScenarioSurplusLegTwo>> }

\* ------------------------------------------------------------------- state
\* Objects live in a heap of arrays addressed by reference: the caller's two
\* arrays, and the two arrays each engine instance may allocate.
CallerOne == <<"caller", "one">>

CallerTwo == <<"caller", "two">>

Refs == {CallerOne, CallerTwo} \cup (Engines \X {"one", "two"})

VARIABLES
  heap,                \* reference -> array of offers
  legOneOffers,        \* this.legOneOffers: engine -> reference
  legTwoOffers,        \* this.legTwoOffers: engine -> reference
  ownerFundsLeftover,  \* this._ownerFundsLeftover: engine -> (account -> Amount)
  pc,                  \* engine -> "new" | "idle" | "loop" | "compare" | "clamp"
  legOnePointer,       \* calculate's local, per engine
  legTwoPointer,       \* calculate's local, per engine
  offersAutobridged,   \* calculate's local, per engine
  autobridged,         \* getAutobridgedOfferWithClampedLegOne's locals
  returned,            \* engine -> the results of its finished calculate() calls
  snapshot,            \* history: the legs each engine held when constructed
  pairs,               \* history: which pair produced each emitted offer
  credited,            \* history: bridge amount top-up added to each leg-one offer
  iterations,          \* history: loop iterations of the running call
  step                 \* history: the last step of each engine and what it read

vars ==
  <<heap, legOneOffers, legTwoOffers, ownerFundsLeftover, pc, legOnePointer,
    legTwoPointer, offersAutobridged, autobridged, returned, snapshot, pairs,
    credited, iterations, step>>

\* ------------------------------------------------------- leftover ledger
EmptyLedger == [a \in {} |-> normalizeAmount(0)]

clearOwnerFundsLeftover == EmptyLedger

getLeftoverOwnerFunds(ledger, account) ==
  IF account \in DOMAIN ledger THEN ledger[account] ELSE normalizeAmount(0)

setLeftoverOwnerFunds(ledger, account, amount) ==
  [a \in DOMAIN ledger \cup {account} |->
     IF a = account THEN amount ELSE ledger[a]]

resetOwnerFundsLeftover(ledger, account) ==
  [a \in DOMAIN ledger \cup {account} |->
     IF a = account THEN normalizeAmount(0) ELSE ledger[a]]

\* A credit that lands on every account.
addLeftoverToAll(ledger, account, amount) ==
  [a \in Accounts |-> add(getLeftoverOwnerFunds(ledger, a), amount)]

addLeftoverOwnerFunds(ledger, account, amount) ==
  [a \in DOMAIN ledger \cup {account} |->
     IF a = account THEN add(getLeftoverOwnerFunds(ledger, account), amount)
                    ELSE ledger[a]]

\* ------------------------------------------------- funding-clamp subsystem
\* legOneOffer.TakerGets.value: TakerGets of a leg-one offer is a plain
\* numeric string (assertValidLegOneOffer), which has no property "value".
TakerGetsValue(legOneOffer) == Undefined

setLegOneTakerGetsFunded(legOneOffer, takerGetsFunded) ==
  [legOneOffer EXCEPT
     !.taker_gets_funded = takerGetsFunded,
     !.taker_pays_funded = multiply(takerGetsFunded, getOfferQuality(legOneOffer)),
     !.is_fully_funded =
        IF takerGetsFunded = TakerGetsValue(legOneOffer) THEN TRUE ELSE @]

setLegOneTakerGets(legOneOffer, takerGets) ==
  [legOneOffer EXCEPT
     !.TakerGets = takerGets,
     !.TakerPays = multiply(takerGets, getOfferQuality(legOneOffer))]

unclampLegOneOwnerFunds(legOneOffer) ==
  setLegOneTakerGetsFunded(
    [legOneOffer EXCEPT !.initTakerGetsFunded = getOfferTakerGetsFunded(legOneOffer)],
    getOfferTakerGets(legOneOffer))

\* A clamp that credits the difference without comparing first.
clampAlwaysCredits(legOneOffer, ledger) ==
  LET takerGets == getOfferTakerGets(legOneOffer)
      init == legOneOffer.initTakerGetsFunded
  IN  <<setLegOneTakerGetsFunded(legOneOffer, takerGets),
        addLeftoverOwnerFunds(ledger, legOneOffer.Account, subtract(init, takerGets))>>
\* A clamp that restores the snapshot whatever the nominal amount is.
clampRestoresInit(legOneOffer, ledger) ==
  LET takerGets == getOfferTakerGets(legOneOffer)
      init == legOneOffer.initTakerGetsFunded
  IN  IF compareTo(takerGets, init) > 0
      THEN <<setLegOneTakerGetsFunded(legOneOffer, init), ledger>>
      ELSE <<setLegOneTakerGetsFunded(legOneOffer, init),
             addLeftoverOwnerFunds(ledger, legOneOffer.Account,
                                   subtract(init, takerGets))>>

\* A clamp that drops the excess instead of crediting it.
clampNeverCredits(legOneOffer, ledger) ==
  LET takerGets == getOfferTakerGets(legOneOffer)
      init == legOneOffer.initTakerGetsFunded
  IN  IF compareTo(takerGets, init) > 0
      THEN <<setLegOneTakerGetsFunded(legOneOffer, init), ledger>>
      ELSE <<setLegOneTakerGetsFunded(legOneOffer, takerGets), ledger>>

\* <<offer, ledger>> after the clamp is reapplied.
clampLegOneOwnerFunds(legOneOffer, ledger) ==
  LET takerGets == getOfferTakerGets(legOneOffer)
      init == legOneOffer.initTakerGetsFunded
  IN  IF compareTo(takerGets, init) > 0
      THEN <<setLegOneTakerGetsFunded(legOneOffer, init), ledger>>
      ELSE <<setLegOneTakerGetsFunded(legOneOffer, takerGets),
             addLeftoverOwnerFunds(ledger, legOneOffer.Account,
                                   subtract(init, takerGets))>>
\* A top-up that keeps the whole sum as leftover after funding the offer.
adjustKeepsSum(legOneOffer, ledger) ==
  LET fundedSum == add(getOfferTakerGetsFunded(legOneOffer),
                       getLeftoverOwnerFunds(ledger, legOneOffer.Account))
      legOneTakerGets == getOfferTakerGets(legOneOffer)
  IN  IF compareTo(fundedSum, legOneTakerGets) >= 0
      THEN <<setLegOneTakerGetsFunded(legOneOffer, legOneTakerGets),
             setLeftoverOwnerFunds(ledger, legOneOffer.Account, fundedSum)>>
      ELSE <<setLegOneTakerGetsFunded(legOneOffer, fundedSum),
             resetOwnerFundsLeftover(ledger, legOneOffer.Account)>>

\* <<offer, ledger>> after the top-up.
adjustLegOneFundedAmount(legOneOffer, ledger) ==
  LET fundedSum == add(getOfferTakerGetsFunded(legOneOffer),
                       getLeftoverOwnerFunds(ledger, legOneOffer.Account))
      legOneTakerGets == getOfferTakerGets(legOneOffer)
  IN  IF compareTo(fundedSum, legOneTakerGets) >= 0
      THEN <<setLegOneTakerGetsFunded(legOneOffer, legOneTakerGets),
             setLeftoverOwnerFunds(ledger, legOneOffer.Account,
                                   subtract(fundedSum, legOneTakerGets))>>
      ELSE <<setLegOneTakerGetsFunded(legOneOffer, fundedSum),
             resetOwnerFundsLeftover(ledger, legOneOffer.Account)>>

\* --------------------------------------------------------------- formatter
\* The constructor's first two arguments.
\* The output and input issuers of the engine's configuration; the
\* constructor has no parameter that receives them.
outputIssuer == "rOut"

inputIssuer == "rIn"

currencyGets == "USD"

currencyPays == "EUR"

\* Utils.convertOfferQualityToHex: an order-preserving key of the quality.
convertOfferQualityToHex(quality) == <<"dir", quality>>

\* A formatter that reports the quality upside down.
formatInvertedQuality(takerGets, takerPays) ==
  LET quality == divide(takerGets, takerPays)
  IN  [TakerGets |-> [value |-> takerGets, currency |-> currencyGets,
                      issuer |-> Undefined],
       TakerPays |-> [value |-> takerPays, currency |-> currencyPays,
                      issuer |-> Undefined],
       quality |-> quality,
       taker_gets_funded |-> takerGets,
       taker_pays_funded |-> takerPays,
       autobridged |-> TRUE,
       BookDirectory |-> convertOfferQualityToHex(quality)]

\* this._issuerGets and this._issuerPays are read but never assigned.
formatAutobridgedOffer(takerGets, takerPays) ==
  LET quality == divide(takerPays, takerGets)
  IN  [TakerGets |-> [value |-> takerGets, currency |-> currencyGets,
                      issuer |-> Undefined],
       TakerPays |-> [value |-> takerPays, currency |-> currencyPays,
                      issuer |-> Undefined],
       quality |-> quality,
       taker_gets_funded |-> takerGets,
       taker_pays_funded |-> takerPays,
       autobridged |-> TRUE,
       BookDirectory |-> convertOfferQualityToHex(quality)]

\* A constructor that keeps the caller's array instead of copying it.
keepReference(h, src, fresh) == <<h, src>>

\* ------------------------------------------------------------- constructor
\* _.cloneDeep(array): a fresh array holding copies of the offers.
\* <<heap, reference of the copy>>.
cloneDeep(h, src, fresh) == <<[h EXCEPT ![fresh] = h[src]], fresh>>

\* The state before construction, the caller holding the two legs of `in`.
InitWith(in) ==
  /\ heap = [r \in Refs |->
               IF r = CallerOne THEN in[1]
               ELSE IF r = CallerTwo THEN in[2] ELSE << >>]
  /\ legOneOffers = [e \in Engines |-> Undefined]
  /\ legTwoOffers = [e \in Engines |-> Undefined]
  /\ ownerFundsLeftover = [e \in Engines |-> EmptyLedger]
  /\ pc = [e \in Engines |-> "new"]
  /\ legOnePointer = [e \in Engines |-> 0]
  /\ legTwoPointer = [e \in Engines |-> 0]
  /\ offersAutobridged = [e \in Engines |-> << >>]
  /\ autobridged = [e \in Engines |-> Undefined]
  /\ returned = [e \in Engines |-> << >>]
  /\ snapshot = [e \in Engines |-> Undefined]
  /\ pairs = [e \in Engines |-> << >>]
  /\ credited = [e \in Engines |-> << >>]
  /\ iterations = [e \in Engines |-> 0]
  /\ step = [e \in Engines |-> [op |-> "none"]]

Init == \E in \in Inputs : InitWith(in)

\* What a step read, for the history variable step.
Read(op, e, one, two) ==
  [op |-> op, one |-> one, two |-> two, ledger |-> ownerFundsLeftover[e],
   i |-> legOnePointer[e], j |-> legTwoPointer[e],
   emitted |-> Len(offersAutobridged[e])]

\* JavaScript runs one call at a time: an engine acts only while no other
\* engine is inside calculate().
Quiescent(e) == pc[e] \in {"new", "idle"}

Alone(e) == \A o \in Engines \ {e} : Quiescent(o)

\* new AutobridgeCalculator(currencyGets, currencyPays, legOneOffers, legTwoOffers)
Construct(e) ==
  /\ Alone(e)
  /\ pc[e] = "new"
  /\ LET c1 == cloneDeep(heap, CallerOne, <<e, "one">>)
         c2 == cloneDeep(c1[1], CallerTwo, <<e, "two">>)
     IN  /\ heap' = c2[1]
         /\ legOneOffers' = [legOneOffers EXCEPT ![e] = c1[2]]
         /\ legTwoOffers' = [legTwoOffers EXCEPT ![e] = c2[2]]
         /\ snapshot' = [snapshot EXCEPT ![e] = <<c2[1][c1[2]], c2[1][c2[2]]>>]
  /\ ownerFundsLeftover' = [ownerFundsLeftover EXCEPT ![e] = EmptyLedger]
  /\ pc' = [pc EXCEPT ![e] = "idle"]
  /\ step' = [step EXCEPT ![e] = [op |-> "Construct"]]
  /\ UNCHANGED <<legOnePointer, legTwoPointer, offersAutobridged, autobridged,
                 returned, pairs, credited, iterations>>

\* --------------------------------------------------------------- calculate
LegOne(e) == heap[legOneOffers[e]]

LegTwo(e) == heap[legTwoOffers[e]]

\* The while condition: both pointers reference an offer.
Live(e) ==
  /\ legOnePointer[e] < Len(LegOne(e))
  /\ legTwoPointer[e] < Len(LegTwo(e))

CurOne(e) == LegOne(e)[legOnePointer[e] + 1]

CurTwo(e) == LegTwo(e)[legTwoPointer[e] + 1]

StoreOne(e, offer) ==
  [heap EXCEPT ![legOneOffers[e]][legOnePointer[e] + 1] = offer]

StoreTwo(e, offer) ==
  [heap EXCEPT ![legTwoOffers[e]][legTwoPointer[e] + 1] = offer]

\* The history entry of an emitted offer: the pair and the bridge amount.
Pair(e, bridge) ==
  [i |-> legOnePointer[e], j |-> legTwoPointer[e], bridge |-> bridge,
   sameOwner |-> (CurOne(e).Account = CurTwo(e).Account)]

\* calculate(), up to the first test of the while condition.
Calculate(e) ==
  /\ Alone(e)
  /\ pc[e] = "idle"
  /\ Len(returned[e]) < MaxCalls
  /\ legOnePointer' = [legOnePointer EXCEPT ![e] = 0]
  /\ legTwoPointer' = [legTwoPointer EXCEPT ![e] = 0]
  /\ offersAutobridged' = [offersAutobridged EXCEPT ![e] = << >>]
  /\ ownerFundsLeftover' = [ownerFundsLeftover EXCEPT ![e] = clearOwnerFundsLeftover]
  /\ pc' = [pc EXCEPT ![e] = "loop"]
  /\ pairs' = [pairs EXCEPT ![e] = << >>]
  /\ credited' = [credited EXCEPT ![e] =
                    [k \in 1..Len(LegOne(e)) |-> normalizeAmount(0)]]
  /\ iterations' = [iterations EXCEPT ![e] = 0]
  /\ step' = [step EXCEPT ![e] = [op |-> "Calculate"]]
  /\ UNCHANGED <<heap, legOneOffers, legTwoOffers, autobridged, returned, snapshot>>

\* A calculate() that also flushes the offers leg two has left.
ReturnWithRest(e) ==
  /\ Alone(e)
  /\ pc[e] = "loop"
  /\ ~Live(e)
  /\ returned' = [returned EXCEPT ![e] =
       Append(@, offersAutobridged[e]
                   \o SubSeq(LegTwo(e), legTwoPointer[e] + 1, Len(LegTwo(e))))]
  /\ pc' = [pc EXCEPT ![e] = "idle"]
  /\ step' = [step EXCEPT ![e] = [op |-> "Return"]]
  /\ UNCHANGED <<heap, legOneOffers, legTwoOffers, ownerFundsLeftover,
                 legOnePointer, legTwoPointer, offersAutobridged, autobridged,
                 snapshot, pairs, credited, iterations>>

\* The while condition fails: return offersAutobridged.
Return(e) ==
  /\ Alone(e)
  /\ pc[e] = "loop"
  /\ ~Live(e)
  /\ returned' = [returned EXCEPT ![e] = Append(@, offersAutobridged[e])]
  /\ pc' = [pc EXCEPT ![e] = "idle"]
  /\ step' = [step EXCEPT ![e] = [op |-> "Return"]]
  /\ UNCHANGED <<heap, legOneOffers, legTwoOffers, ownerFundsLeftover,
                 legOnePointer, legTwoPointer, offersAutobridged, autobridged,
                 snapshot, pairs, credited, iterations>>

\* Lines 50-51: the two offers have one owner.
Unclamp(e) ==
  /\ Alone(e)
  /\ pc[e] = "loop"
  /\ Live(e)
  /\ CurOne(e).Account = CurTwo(e).Account
  /\ heap' = StoreOne(e, unclampLegOneOwnerFunds(CurOne(e)))
  /\ pc' = [pc EXCEPT ![e] = "compare"]
  /\ iterations' = [iterations EXCEPT ![e] = @ + 1]
  /\ step' = [step EXCEPT ![e] = Read("Unclamp", e, CurOne(e), CurTwo(e))]
  /\ UNCHANGED <<legOneOffers, legTwoOffers, ownerFundsLeftover, legOnePointer,
                 legTwoPointer, offersAutobridged, autobridged, returned,
                 snapshot, pairs, credited>>

\* Lines 52-53: another owner, the offer is not flagged fully funded and its
\* owner has leftover funds.
TopUp(e) ==
  /\ Alone(e)
  /\ pc[e] = "loop"
  /\ Live(e)
  /\ CurOne(e).Account # CurTwo(e).Account
  /\ ~CurOne(e).is_fully_funded
  /\ ~is_zero(getLeftoverOwnerFunds(ownerFundsLeftover[e], CurOne(e).Account))
  /\ LET r == adjustLegOneFundedAmount(CurOne(e), ownerFundsLeftover[e])
     IN  /\ heap' = StoreOne(e, r[1])
         /\ ownerFundsLeftover' = [ownerFundsLeftover EXCEPT ![e] = r[2]]
         /\ credited' = [credited EXCEPT ![e][legOnePointer[e] + 1] =
                           add(@, subtract(getOfferTakerGetsFunded(r[1]),
                                           getOfferTakerGetsFunded(CurOne(e))))]
  /\ pc' = [pc EXCEPT ![e] = "compare"]
  /\ iterations' = [iterations EXCEPT ![e] = @ + 1]
  /\ step' = [step EXCEPT ![e] = Read("TopUp", e, CurOne(e), CurTwo(e))]
  /\ UNCHANGED <<legOneOffers, legTwoOffers, legOnePointer, legTwoPointer,
                 offersAutobridged, autobridged, returned, snapshot, pairs>>

\* Lines 50-54 when neither branch is taken.
NoAdjust(e) ==
  /\ Alone(e)
  /\ pc[e] = "loop"
  /\ Live(e)
  /\ CurOne(e).Account # CurTwo(e).Account
  /\ \/ CurOne(e).is_fully_funded
     \/ is_zero(getLeftoverOwnerFunds(ownerFundsLeftover[e], CurOne(e).Account))
  /\ pc' = [pc EXCEPT ![e] = "compare"]
  /\ iterations' = [iterations EXCEPT ![e] = @ + 1]
  /\ step' = [step EXCEPT ![e] = Read("NoAdjust", e, CurOne(e), CurTwo(e))]
  /\ UNCHANGED <<heap, legOneOffers, legTwoOffers, ownerFundsLeftover,
                 legOnePointer, legTwoPointer, offersAutobridged, autobridged,
                 returned, snapshot, pairs, credited>>
\* A skip that forgets to advance the leg-one pointer.
SkipLegOneStuck(e) ==
  /\ Alone(e)
  /\ pc[e] = "compare"
  /\ is_zero(getOfferTakerGetsFunded(CurOne(e)))
  /\ pc' = [pc EXCEPT ![e] = "loop"]
  /\ step' = [step EXCEPT ![e] = Read("SkipLegOne", e, CurOne(e), CurTwo(e))]
  /\ UNCHANGED <<heap, legOneOffers, legTwoOffers, ownerFundsLeftover,
                 legOnePointer, legTwoPointer, offersAutobridged, autobridged,
                 returned, snapshot, pairs, credited, iterations>>

\* Lines 59-63: the leg-one offer has nothing funded.
SkipLegOne(e) ==
  /\ Alone(e)
  /\ pc[e] = "compare"
  /\ is_zero(getOfferTakerGetsFunded(CurOne(e)))
  /\ legOnePointer' = [legOnePointer EXCEPT ![e] = @ + 1]
  /\ pc' = [pc EXCEPT ![e] = "loop"]
  /\ step' = [step EXCEPT ![e] = Read("SkipLegOne", e, CurOne(e), CurTwo(e))]
  /\ UNCHANGED <<heap, legOneOffers, legTwoOffers, ownerFundsLeftover,
                 legTwoPointer, offersAutobridged, autobridged, returned,
                 snapshot, pairs, credited, iterations>>

\* Lines 65-69: the leg-two offer can absorb nothing.
SkipLegTwo(e) ==
  /\ Alone(e)
  /\ pc[e] = "compare"
  /\ ~is_zero(getOfferTakerGetsFunded(CurOne(e)))
  /\ is_zero(getOfferTakerPaysFunded(CurTwo(e)))
  /\ legTwoPointer' = [legTwoPointer EXCEPT ![e] = @ + 1]
  /\ pc' = [pc EXCEPT ![e] = "loop"]
  /\ step' = [step EXCEPT ![e] = Read("SkipLegTwo", e, CurOne(e), CurTwo(e))]
  /\ UNCHANGED <<heap, legOneOffers, legTwoOffers, ownerFundsLeftover,
                 legOnePointer, offersAutobridged, autobridged, returned,
                 snapshot, pairs, credited, iterations>>

\* Both amounts are non-zero: the three-way comparison of lines 71-93.
Funded(e) ==
  /\ pc[e] = "compare"
  /\ ~is_zero(getOfferTakerGetsFunded(CurOne(e)))
  /\ ~is_zero(getOfferTakerPaysFunded(CurTwo(e)))

Compared(e) ==
  compareTo(getOfferTakerGetsFunded(CurOne(e)), getOfferTakerPaysFunded(CurTwo(e)))

\* getAutobridgedOfferWithClampedLegOne, lines 113-118: <<takerGets, takerPays>>
\* of the autobridged offer.
clampedLegOneAmounts(legOneOffer, legTwoOffer) ==
  <<getOfferTakerGetsFunded(legTwoOffer),
    multiply(getOfferTakerPaysFunded(legTwoOffer), getOfferQuality(legOneOffer))>>

\* Lines 121-124: the same-owner branch shrinks the nominal amount.
clampedLegOneSameOwner(legOneOffer, legTwoOffer) ==
  setLegOneTakerGets(legOneOffer,
    subtract(getOfferTakerGets(legOneOffer), getOfferTakerPaysFunded(legTwoOffer)))

\* A partial consumption that subtracts what leg two gives, not what it takes.
clampedLegOneOtherOwnerByGets(legOneOffer, legTwoOffer) ==
  setLegOneTakerGetsFunded(legOneOffer,
    subtract(getOfferTakerGetsFunded(legOneOffer),
             getOfferTakerGetsFunded(legTwoOffer)))

\* Lines 129-132: the other-owner branch consumes part of the funded amount.
clampedLegOneOtherOwner(legOneOffer, legTwoOffer) ==
  setLegOneTakerGetsFunded(legOneOffer,
    subtract(getOfferTakerGetsFunded(legOneOffer),
             getOfferTakerPaysFunded(legTwoOffer)))

\* A clamp of leg two that multiplies by the leg-two quality.
clampedLegTwoMultiplied(legOneOffer, legTwoOffer) ==
  LET legOneTakerGetsFunded == getOfferTakerGetsFunded(legOneOffer)
      legTwoTakerPaysFunded == getOfferTakerPaysFunded(legTwoOffer)
      autobridgedTakerGets == multiply(legOneTakerGetsFunded, getOfferQuality(legTwoOffer))
      autobridgedTakerPays == getOfferTakerPaysFunded(legOneOffer)
  IN  [offer |-> formatAutobridgedOffer(autobridgedTakerGets, autobridgedTakerPays),
       two |-> [legTwoOffer EXCEPT
                  !.taker_gets_funded = subtract(@, autobridgedTakerGets),
                  !.taker_pays_funded =
                     subtract(legTwoTakerPaysFunded, legOneTakerGetsFunded)]]

\* A clamp of leg two that forgets to reduce what leg two still takes.
clampedLegTwoKeepsPays(legOneOffer, legTwoOffer) ==
  LET legOneTakerGetsFunded == getOfferTakerGetsFunded(legOneOffer)
      autobridgedTakerGets == divide(legOneTakerGetsFunded, getOfferQuality(legTwoOffer))
      autobridgedTakerPays == getOfferTakerPaysFunded(legOneOffer)
  IN  [offer |-> formatAutobridgedOffer(autobridgedTakerGets, autobridgedTakerPays),
       two |-> [legTwoOffer EXCEPT
                  !.taker_gets_funded = subtract(@, autobridgedTakerGets)]]

\* getAutobridgedOfferWithClampedLegTwo: the offer and the updated leg two.
getAutobridgedOfferWithClampedLegTwo(legOneOffer, legTwoOffer) ==
  LET legOneTakerGetsFunded == getOfferTakerGetsFunded(legOneOffer)
      legTwoTakerPaysFunded == getOfferTakerPaysFunded(legTwoOffer)
      autobridgedTakerGets == divide(legOneTakerGetsFunded, getOfferQuality(legTwoOffer))
      autobridgedTakerPays == getOfferTakerPaysFunded(legOneOffer)
  IN  [offer |-> formatAutobridgedOffer(autobridgedTakerGets, autobridgedTakerPays),
       two |-> [legTwoOffer EXCEPT
                  !.taker_gets_funded = subtract(@, autobridgedTakerGets),
                  !.taker_pays_funded =
                     subtract(legTwoTakerPaysFunded, legOneTakerGetsFunded)]]

\* An equal case that takes the output amount from leg one.
withoutClampsFromLegOne(legOneOffer, legTwoOffer) ==
  formatAutobridgedOffer(getOfferTakerGetsFunded(legOneOffer),
                         getOfferTakerPaysFunded(legOneOffer))


getAutobridgedOfferWithoutClamps(legOneOffer, legTwoOffer) ==
  formatAutobridgedOffer(getOfferTakerGetsFunded(legTwoOffer),
                         getOfferTakerPaysFunded(legOneOffer))

\* Lines 71-77 and 113-124 for one owner, up to the call of
\* clampLegOneOwnerFunds.
ClampedLegOneSameOwner(e) ==
  /\ Alone(e)
  /\ Funded(e)
  /\ Compared(e) > 0
  /\ CurOne(e).Account = CurTwo(e).Account
  /\ autobridged' = [autobridged EXCEPT ![e] = clampedLegOneAmounts(CurOne(e), CurTwo(e))]
  /\ heap' = StoreOne(e, clampedLegOneSameOwner(CurOne(e), CurTwo(e)))
  /\ pc' = [pc EXCEPT ![e] = "clamp"]
  /\ step' = [step EXCEPT ![e] = Read("ClampedLegOneSameOwner", e, CurOne(e), CurTwo(e))]
  /\ UNCHANGED <<legOneOffers, legTwoOffers, ownerFundsLeftover, legOnePointer,
                 legTwoPointer, offersAutobridged, returned, snapshot, pairs,
                 credited, iterations>>

\* Lines 126, 135-138, 77 and 95: reapply the clamp, emit, advance leg two.
ReapplyClamp(e) ==
  /\ Alone(e)
  /\ pc[e] = "clamp"
  /\ LET r == clampLegOneOwnerFunds(CurOne(e), ownerFundsLeftover[e])
     IN  /\ heap' = StoreOne(e, r[1])
         /\ ownerFundsLeftover' = [ownerFundsLeftover EXCEPT ![e] = r[2]]
  /\ offersAutobridged' = [offersAutobridged EXCEPT ![e] =
       Append(@, formatAutobridgedOffer(autobridged[e][1], autobridged[e][2]))]
  /\ pairs' = [pairs EXCEPT ![e] =
       Append(@, Pair(e, getOfferTakerPaysFunded(CurTwo(e))))]
  /\ autobridged' = [autobridged EXCEPT ![e] = Undefined]
  /\ legTwoPointer' = [legTwoPointer EXCEPT ![e] = @ + 1]
  /\ pc' = [pc EXCEPT ![e] = "loop"]
  /\ step' = [step EXCEPT ![e] = Read("ReapplyClamp", e, CurOne(e), CurTwo(e))]
  /\ UNCHANGED <<legOneOffers, legTwoOffers, legOnePointer, returned, snapshot,
                 credited, iterations>>

\* Lines 71-77 and 113-138 for two owners.
ClampedLegOneOtherOwner(e) ==
  /\ Alone(e)
  /\ Funded(e)
  /\ Compared(e) > 0
  /\ CurOne(e).Account # CurTwo(e).Account
  /\ LET a == clampedLegOneAmounts(CurOne(e), CurTwo(e))
     IN  offersAutobridged' = [offersAutobridged EXCEPT ![e] =
           Append(@, formatAutobridgedOffer(a[1], a[2]))]
  /\ heap' = StoreOne(e, clampedLegOneOtherOwner(CurOne(e), CurTwo(e)))
  /\ pairs' = [pairs EXCEPT ![e] =
       Append(@, Pair(e, getOfferTakerPaysFunded(CurTwo(e))))]
  /\ legTwoPointer' = [legTwoPointer EXCEPT ![e] = @ + 1]
  /\ pc' = [pc EXCEPT ![e] = "loop"]
  /\ step' = [step EXCEPT ![e] = Read("ClampedLegOneOtherOwner", e, CurOne(e), CurTwo(e))]
  /\ UNCHANGED <<legOneOffers, legTwoOffers, ownerFundsLeftover, legOnePointer,
                 autobridged, returned, snapshot, credited, iterations>>

\* Lines 78-84.
ClampedLegTwo(e) ==
  /\ Alone(e)
  /\ Funded(e)
  /\ Compared(e) < 0
  /\ LET r == getAutobridgedOfferWithClampedLegTwo(CurOne(e), CurTwo(e))
     IN  /\ offersAutobridged' = [offersAutobridged EXCEPT ![e] = Append(@, r.offer)]
         /\ heap' = StoreTwo(e, r.two)
  /\ pairs' = [pairs EXCEPT ![e] =
       Append(@, Pair(e, getOfferTakerGetsFunded(CurOne(e))))]
  /\ legOnePointer' = [legOnePointer EXCEPT ![e] = @ + 1]
  /\ pc' = [pc EXCEPT ![e] = "loop"]
  /\ step' = [step EXCEPT ![e] = Read("ClampedLegTwo", e, CurOne(e), CurTwo(e))]
  /\ UNCHANGED <<legOneOffers, legTwoOffers, ownerFundsLeftover, legTwoPointer,
                 autobridged, returned, snapshot, credited, iterations>>

\* Lines 85-93.
WithoutClamps(e) ==
  /\ Alone(e)
  /\ Funded(e)
  /\ Compared(e) = 0
  /\ offersAutobridged' = [offersAutobridged EXCEPT ![e] =
       Append(@, getAutobridgedOfferWithoutClamps(CurOne(e), CurTwo(e)))]
  /\ pairs' = [pairs EXCEPT ![e] =
       Append(@, Pair(e, getOfferTakerGetsFunded(CurOne(e))))]
  /\ legOnePointer' = [legOnePointer EXCEPT ![e] = @ + 1]
  /\ legTwoPointer' = [legTwoPointer EXCEPT ![e] = @ + 1]
  /\ pc' = [pc EXCEPT ![e] = "loop"]
  /\ step' = [step EXCEPT ![e] = Read("WithoutClamps", e, CurOne(e), CurTwo(e))]
  /\ UNCHANGED <<heap, legOneOffers, legTwoOffers, ownerFundsLeftover,
                 autobridged, returned, snapshot, credited, iterations>>

\* ---------------------------------------------------------- specifications
EngineStep(e) ==
  \/ Construct(e)
  \/ Calculate(e)
  \/ Return(e)
  \/ Unclamp(e)
  \/ TopUp(e)
  \/ NoAdjust(e)
  \/ SkipLegOne(e)
  \/ SkipLegTwo(e)
  \/ ClampedLegOneSameOwner(e)
  \/ ReapplyClamp(e)
  \/ ClampedLegOneOtherOwner(e)
  \/ ClampedLegTwo(e)
  \/ WithoutClamps(e)

\* One engine instance.
Next == EngineStep("e1")

Spec == Init /\ [][Next]_vars

\* The first calculate() call on an engine instance.
CalculateOnce(e) == returned[e] = << >> /\ Calculate(e)

EngineStepOnce(e) ==
  \/ Construct(e)
  \/ CalculateOnce(e)
  \/ Return(e)
  \/ Unclamp(e)
  \/ TopUp(e)
  \/ NoAdjust(e)
  \/ SkipLegOne(e)
  \/ SkipLegTwo(e)
  \/ ClampedLegOneSameOwner(e)
  \/ ReapplyClamp(e)
  \/ ClampedLegOneOtherOwner(e)
  \/ ClampedLegTwo(e)
  \/ WithoutClamps(e)

\* Two engine instances built from the same caller arrays, in any order of
\* construction and use, each running calculate() once.
NextTwo == \E e \in Engines : EngineStepOnce(e)

SpecTwo == Init /\ [][NextTwo]_vars

\* ------------------------------------------------------------- vocabulary
Built(e) == pc[e] # "new"

Running(e) == pc[e] \in {"loop", "compare", "clamp"}

\* The first calculate() of an engine is under way.
InFirstCall(e) == Running(e) /\ returned[e] = << >>

\* The steps that start an iteration, and the steps that end one.
HeadOps == {"Unclamp", "TopUp", "NoAdjust"}

EmitOps == {"ReapplyClamp", "ClampedLegOneOtherOwner", "ClampedLegTwo", "WithoutClamps"}

SkipOps == {"SkipLegOne", "SkipLegTwo"}

\* The engine has just finished an iteration with an emitted offer.
JustEmitted(e) == Running(e) /\ step[e].op \in EmitOps

Zero == normalizeAmount(0)

RECURSIVE ConsumedBefore(_, _, _)
\* Bridge amount the first k emitted offers took from leg-one offer i in
\* pairs with another owner.
ConsumedBefore(ps, i, k) ==
  IF k = 0 THEN Zero
  ELSE add(ConsumedBefore(ps, i, k - 1),
           IF ps[k].i = i /\ ~ps[k].sameOwner THEN ps[k].bridge ELSE Zero)

\* Funded bridge amount leg-one offer i had left before the k-th emitted
\* offer: what it was constructed with, plus what top-up credited to it,
\* minus what earlier offers took from it.
Available(e, i, k) ==
  subtract(add(getOfferTakerGetsFunded(snapshot[e][1][i + 1]), credited[e][i + 1]),
           ConsumedBefore(pairs[e], i, k - 1))

\* ------------------------------------------------------------------ claims
\* C1: no fabrication. Every offer emitted from a pair with two owners pairs
\* at most the funded bridge amount then available from its leg-one offer.
\* (Stated for the offer just emitted in an engine's first calculate().)
C1_NoFabrication ==
  \A e \in Engines :
    (JustEmitted(e) /\ returned[e] = << >>) =>
      LET k == Len(pairs[e])
          p == pairs[e][k]
      IN  ~p.sameOwner => compareTo(p.bridge, Available(e, p.i, k)) <= 0

\* Largest number of iterations a call can make on legs of n and m offers.
IterationBound(n, m) == IF n + m = 0 THEN 0 ELSE n + m - 1

\* C2: empty input. With an empty leg calculate() returns the empty
\* sequence; the loop body runs, and offers are emitted, only while both
\* pointers reference an offer, and the result is what the loop emitted.
C2_EmptyInput ==
  \A e \in Engines :
    Built(e) =>
      /\ pc[e] \in {"compare", "clamp"} => Live(e)
      /\ Len(pairs[e]) = Len(offersAutobridged[e])
      /\ \A k \in DOMAIN pairs[e] :
            /\ pairs[e][k].i < Len(LegOne(e))
            /\ pairs[e][k].j < Len(LegTwo(e))
      /\ (LegOne(e) = << >> \/ LegTwo(e) = << >>) =>
            \A k \in DOMAIN returned[e] : returned[e][k] = << >>
      /\ step[e].op = "Return" =>
            returned[e][Len(returned[e])] = offersAutobridged[e]

\* A call returned on an empty leg one while leg two held offers.
C2_Witness ==
  \E e \in Engines :
    /\ step[e].op = "Return"
    /\ LegOne(e) = << >>
    /\ LegTwo(e) # << >>
    /\ returned[e][1] = << >>

\* What C3 states about the pointers, for a bound on the iterations.
SinglePass(e, bound) ==
  /\ iterations[e] <= bound
  /\ Len(offersAutobridged[e]) <= bound
  /\ Len(offersAutobridged[e]) <= iterations[e]
  /\ pc[e] = "loop" => iterations[e] <= legOnePointer[e] + legTwoPointer[e]
  /\ step[e].op \in HeadOps =>
        /\ legOnePointer[e] = step[e].i
        /\ legTwoPointer[e] = step[e].j
  /\ step[e].op \in EmitOps \cup SkipOps \cup {"ClampedLegOneSameOwner"} =>
        /\ legOnePointer[e] - step[e].i \in {0, 1}
        /\ legTwoPointer[e] - step[e].j \in {0, 1}
  /\ step[e].op \in EmitOps \cup SkipOps =>
        legOnePointer[e] + legTwoPointer[e] > step[e].i + step[e].j

\* C3 as amended: single pass. Within a call no pointer decreases, each
\* moves by at most one per iteration and at least one moves; the loop runs
\* at most n+m-1 iterations, and emits at most as many offers, when a leg is
\* non-empty, and does not run when both are empty.
C3_SinglePass ==
  \A e \in Engines :
    Running(e) =>
      SinglePass(e, IterationBound(Len(LegOne(e)), Len(LegTwo(e))))

\* C3 as stated: at most n+m-1 iterations for legs of n and m offers.
C3_Original ==
  \A e \in Engines :
    Running(e) => SinglePass(e, Len(LegOne(e)) + Len(LegTwo(e)) - 1)

\* Two legs of two offers each took three iterations and gave three offers.
C3_Witness ==
  \E e \in Engines :
    /\ Running(e)
    /\ Len(LegOne(e)) = 2
    /\ Len(LegTwo(e)) = 2
    /\ iterations[e] = 3
    /\ Len(offersAutobridged[e]) = 3

\* The legs an engine was constructed with are sorted best quality first
\* and every offer's funded pays is its funded gets times its quality.
SortedByQuality(leg) ==
  \A k \in 1..(Len(leg) - 1) : compareTo(leg[k].quality, leg[k + 1].quality) <= 0

FundedAtQuality(leg) ==
  \A k \in DOMAIN leg :
    leg[k].taker_pays_funded = multiply(leg[k].taker_gets_funded, leg[k].quality)

WellFormedInput(e) ==
  /\ SortedByQuality(snapshot[e][1]) /\ SortedByQuality(snapshot[e][2])
  /\ FundedAtQuality(snapshot[e][1]) /\ FundedAtQuality(snapshot[e][2])

\* C4: ordered by quality. For well-formed input every emitted offer has
\* the quality quality(L1) * quality(L2) of its pair, and the qualities are
\* non-decreasing in output order.
C4_OrderedByQuality ==
  \A e \in Engines :
    (Built(e) /\ WellFormedInput(e)) =>
      \A k \in DOMAIN offersAutobridged[e] :
        /\ offersAutobridged[e][k].quality =
              multiply(snapshot[e][1][pairs[e][k].i + 1].quality,
                       snapshot[e][2][pairs[e][k].j + 1].quality)
        /\ k > 1 => compareTo(offersAutobridged[e][k - 1].quality,
                              offersAutobridged[e][k].quality) <= 0

\* Three offers of strictly increasing quality were emitted.
C4_Witness ==
  \E e \in Engines :
    /\ Len(offersAutobridged[e]) = 3
    /\ compareTo(offersAutobridged[e][1].quality, offersAutobridged[e][2].quality) < 0
    /\ compareTo(offersAutobridged[e][2].quality, offersAutobridged[e][3].quality) < 0

\* C5: leftover non-negativity. Every entry of every ledger is >= 0.
C5_LeftoverNonNegative ==
  \A e \in Engines :
    \A a \in DOMAIN ownerFundsLeftover[e] :
      compareTo(ownerFundsLeftover[e][a], Zero) >= 0

\* A clamp has credited a positive leftover and a top-up has spent some.
C5_Witness ==
  \E e \in Engines :
    /\ step[e].op = "TopUp"
    /\ \E a \in DOMAIN ownerFundsLeftover[e] :
          /\ compareTo(ownerFundsLeftover[e][a], Zero) > 0
          /\ compareTo(ownerFundsLeftover[e][a], step[e].ledger[a]) < 0

\* The owner's leftover, an absent entry counting as zero.
Leftover(ledger, account) == getLeftoverOwnerFunds(ledger, account)

\* C6: leftover top-up. An iteration that starts on a pair with two owners,
\* a leg-one offer not flagged fully funded and a non-zero leftover of its
\* owner funds the offer from sum = funded + leftover: up to the nominal
\* amount with the rest left over, or to sum with nothing left over; the
\* sum is conserved and the funded amount does not exceed the nominal one.
C6_TopUp ==
  \A e \in Engines :
    (Running(e) /\ step[e].op \in HeadOps) =>
      LET one == step[e].one
          leftover == Leftover(step[e].ledger, one.Account)
          sum == add(one.taker_gets_funded, leftover)
          now == LegOne(e)[step[e].i + 1]
          leftoverNow == Leftover(ownerFundsLeftover[e], one.Account)
      IN  (/\ one.Account # step[e].two.Account
           /\ ~one.is_fully_funded
           /\ ~is_zero(leftover)) =>
            /\ IF compareTo(sum, one.TakerGets) >= 0
               THEN /\ now.taker_gets_funded = one.TakerGets
                    /\ leftoverNow = subtract(sum, one.TakerGets)
               ELSE /\ now.taker_gets_funded = sum
                    /\ leftoverNow = Zero
            /\ add(now.taker_gets_funded, leftoverNow) = sum
            /\ compareTo(now.taker_gets_funded, now.TakerGets) <= 0
            /\ now.TakerGets = one.TakerGets

\* A top-up has fully funded an offer and left part of the leftover.
C6_Witness ==
  \E e \in Engines :
    /\ step[e].op = "TopUp"
    /\ compareTo(step[e].one.taker_gets_funded, step[e].one.TakerGets) < 0
    /\ LegOne(e)[step[e].i + 1].taker_gets_funded = step[e].one.TakerGets
    /\ compareTo(Leftover(ownerFundsLeftover[e], step[e].one.Account), Zero) > 0

\* The first iteration of an engine's first call has just ended on a pair
\* of one owner whose leg-one offer was under-funded and whose leg-two offer
\* was fully funded for less than the leg-one nominal amount.
SameOwnerPassThrough(e) ==
  /\ InFirstCall(e)
  /\ pc[e] = "loop"
  /\ iterations[e] = 1
  /\ LET one == snapshot[e][1][1]
         two == snapshot[e][2][1]
     IN  /\ one.Account = two.Account
         /\ compareTo(one.taker_gets_funded, one.TakerGets) < 0
         /\ two.is_fully_funded
         /\ compareTo(two.taker_pays_funded, one.TakerGets) < 0

\* initFunded - (nominal takerGets after the reduction) of that pair.
PassThroughExcess(e) ==
  LET one == snapshot[e][1][1]
      two == snapshot[e][2][1]
  IN  subtract(one.taker_gets_funded,
               subtract(one.TakerGets, two.taker_pays_funded))

\* C7 as amended: same-owner pass-through. After that first iteration the
\* owner's leftover is initFunded - reduced nominal when that is not
\* negative, and zero otherwise.
C7_PassThrough ==
  \A e \in Engines :
    SameOwnerPassThrough(e) =>
      Leftover(ownerFundsLeftover[e], snapshot[e][1][1].Account) =
        IF compareTo(PassThroughExcess(e), Zero) >= 0
        THEN PassThroughExcess(e) ELSE Zero

\* C7 as stated: the leftover is initFunded - reduced nominal.
C7_Original ==
  \A e \in Engines :
    SameOwnerPassThrough(e) =>
      Leftover(ownerFundsLeftover[e], snapshot[e][1][1].Account) =
        PassThroughExcess(e)

\* The pass-through left a positive leftover.
C7_Witness ==
  \E e \in Engines :
    /\ SameOwnerPassThrough(e)
    /\ compareTo(PassThroughExcess(e), Zero) > 0
    /\ step[e].op = "ReapplyClamp"

\* The steps taken at the comparison of lines 56-93.
CompareOps ==
  SkipOps \cup {"ClampedLegOneSameOwner", "ClampedLegOneOtherOwner",
               "ClampedLegTwo", "WithoutClamps"}

\* The engine was constructed on the given legs.
BuiltOn(e, legOne, legTwo) == Built(e) /\ snapshot[e] = <<legOne, legTwo>>

\* The offer emitted last.
LastOffer(e) == offersAutobridged[e][Len(offersAutobridged[e])]

\* C8: equal case. A comparison of equal non-zero g1 and p2 takes the
\* equal branch, which emits exactly one offer with takerGets =
\* L2.takerGetsFunded and takerPays = L1.takerPaysFunded and advances both
\* pointers; 100 bridge units for 50 against 40 for 100 bridge units give
\* the single offer {40, 50, quality 5/4}.
C8_EqualCase ==
  \A e \in Engines :
    /\ (Running(e) /\ step[e].op \in CompareOps
           /\ ~is_zero(step[e].one.taker_gets_funded)
           /\ step[e].one.taker_gets_funded = step[e].two.taker_pays_funded) =>
          /\ step[e].op = "WithoutClamps"
          /\ Len(offersAutobridged[e]) = step[e].emitted + 1
          /\ LastOffer(e).TakerGets.value = step[e].two.taker_gets_funded
          /\ LastOffer(e).TakerPays.value = step[e].one.taker_pays_funded
          /\ legOnePointer[e] = step[e].i + 1
          /\ legTwoPointer[e] = step[e].j + 1
    /\ (BuiltOn(e, ScenarioLegOne, ScenarioEqualLegTwo) /\ returned[e] # << >>) =>
          /\ Len(returned[e][1]) = 1
          /\ returned[e][1][1].TakerGets.value = normalizeAmount(40)
          /\ returned[e][1][1].TakerPays.value = normalizeAmount(50)
          /\ returned[e][1][1].quality = Canon(5, 4)

\* The documented equal scenario has been through the equal branch.
C8_Witness ==
  \E e \in Engines :
    /\ BuiltOn(e, ScenarioLegOne, ScenarioEqualLegTwo)
    /\ step[e].op = "WithoutClamps"
    /\ ~Live(e)

\* C9: leg-one surplus with two owners. A comparison with g1 > p2 > 0 on a
\* pair of two owners emits takerGets = L2.takerGetsFunded and takerPays =
\* p2 * quality(L1), reduces L1's funded amount by exactly p2 with its
\* funded pays re-derived from the quality, leaves L1's nominal amount
\* alone and advances only the leg-two pointer; 100 bridge units for 50
\* against 20 for 40 bridge units emit {20, 20} and leave 60 funded.
C9_LegOneSurplus ==
  \A e \in Engines :
    /\ (Running(e) /\ step[e].op \in CompareOps
           /\ ~is_zero(step[e].two.taker_pays_funded)
           /\ compareTo(step[e].one.taker_gets_funded,
                        step[e].two.taker_pays_funded) > 0
           /\ step[e].one.Account # step[e].two.Account) =>
          LET one == step[e].one
              two == step[e].two
              now == LegOne(e)[step[e].i + 1]
          IN  /\ step[e].op = "ClampedLegOneOtherOwner"
              /\ Len(offersAutobridged[e]) = step[e].emitted + 1
              /\ LastOffer(e).TakerGets.value = two.taker_gets_funded
              /\ LastOffer(e).TakerPays.value =
                    multiply(two.taker_pays_funded, one.quality)
              /\ now.taker_gets_funded =
                    subtract(one.taker_gets_funded, two.taker_pays_funded)
              /\ now.taker_pays_funded = multiply(now.taker_gets_funded, one.quality)
              /\ now.TakerGets = one.TakerGets
              /\ legOnePointer[e] = step[e].i
              /\ legTwoPointer[e] = step[e].j + 1
    /\ (BuiltOn(e, ScenarioLegOne, ScenarioSurplusLegTwo)
           /\ Len(returned[e]) = 1 /\ pc[e] = "idle") =>
          /\ Len(returned[e][1]) = 1
          /\ returned[e][1][1].TakerGets.value = normalizeAmount(20)
          /\ returned[e][1][1].TakerPays.value = normalizeAmount(20)
          /\ LegOne(e)[1].taker_gets_funded = normalizeAmount(60)

\* The documented surplus scenario has been through the leg-one clamp.
C9_Witness ==
  \E e \in Engines :
    /\ BuiltOn(e, ScenarioLegOne, ScenarioSurplusLegTwo)
    /\ step[e].op = "ClampedLegOneOtherOwner"
    /\ legOnePointer[e] = 0
    /\ legTwoPointer[e] = 1

\* C10: isolation. The caller's arrays stay what they were when an engine
\* was constructed on them, every engine works on arrays of its own, and
\* two engines constructed on the same caller arrays return the same
\* result whichever ran first.
C10_CallerArraysUntouched ==
  \A e \in Engines :
    Built(e) =>
      /\ heap[CallerOne] = snapshot[e][1]
      /\ heap[CallerTwo] = snapshot[e][2]
      /\ {legOneOffers[e], legTwoOffers[e]} \cap {CallerOne, CallerTwo} = {}
      /\ \A f \in Engines \ {e} :
            Built(f) =>
              /\ {legOneOffers[e], legTwoOffers[e]}
                    \cap {legOneOffers[f], legTwoOffers[f]} = {}
              /\ (returned[e] # << >> /\ returned[f] # << >>) =>
                    returned[e][1] = returned[f][1]

\* Both engines returned offers after changing their own copies of both
\* legs.
C10_Witness ==
  \E e \in Engines :
    \E f \in Engines \ {e} :
      /\ returned[e] # << >> /\ returned[f] # << >>
      /\ returned[e][1] # << >>
      /\ LegOne(e) # heap[CallerOne] /\ LegTwo(e) # heap[CallerTwo]
      /\ LegOne(f) # heap[CallerOne] /\ LegTwo(f) # heap[CallerTwo]

\* C11: repeated calculate(). A second calculate() call on an engine
\* instance returns the same sequence as the first call.
C11_RepeatedCalculate ==
  \A e \in Engines :
    Len(returned[e]) >= 2 => returned[e][2] = returned[e][1]

\* Every offer an engine has emitted: in the running call and in the
\* results already returned.
Emitted(e) ==
  { offersAutobridged[e][k] : k \in DOMAIN offersAutobridged[e] }
    \cup UNION { { returned[e][c][k] : k \in DOMAIN returned[e][c] } :
                   c \in DOMAIN returned[e] }

\* C12: every emitted offer is presented as fully funded at its own quality:
\* its funded amounts are its takerGets and takerPays values, autobridged is
\* true, its takerGets is non-zero for input offers whose funded pays is
\* funded gets times quality, and quality = takerPays / takerGets.
C12_EmittedRecord ==
  \A e \in Engines :
    Built(e) =>
      \A o \in Emitted(e) :
        /\ o.taker_gets_funded = o.TakerGets.value
        /\ o.taker_pays_funded = o.TakerPays.value
        /\ o.autobridged = TRUE
        /\ (FundedAtQuality(snapshot[e][1]) /\ FundedAtQuality(snapshot[e][2])) =>
              ~is_zero(o.TakerGets.value)
        /\ ~is_zero(o.TakerGets.value) =>
              multiply(o.quality, o.TakerGets.value) = o.TakerPays.value

\* An offer has just been emitted whose quality is not one.
C12_Witness ==
  \E e \in Engines :
    /\ JustEmitted(e)
    /\ LastOffer(e).quality # normalizeAmount(1)
    /\ LastOffer(e).TakerGets.value # LastOffer(e).TakerPays.value

\* C13: every emitted offer carries the configured issuers and currencies:
\* takerGets of the output currency and issuer, takerPays of the input
\* currency and issuer.
C13_ConfiguredIssuers ==
  \A e \in Engines :
    Built(e) =>
      \A o \in Emitted(e) :
        /\ o.TakerGets.currency = currencyGets
        /\ o.TakerPays.currency = currencyPays
        /\ o.TakerGets.issuer = outputIssuer
        /\ o.TakerPays.issuer = inputIssuer

\* The steps that set a leg-one offer's funded amount.
SetFundedOps == {"Unclamp", "TopUp", "ReapplyClamp", "ClampedLegOneOtherOwner"}

\* C14: set funded. After every step that sets a leg-one offer's funded
\* amount, its funded pays is funded gets times its quality and its
\* is_fully_funded flag is true exactly when funded gets equals the nominal
\* amount.
C14_SetFunded ==
  \A e \in Engines :
    (Running(e) /\ step[e].op \in SetFundedOps) =>
      LET now == LegOne(e)[step[e].i + 1]
      IN  /\ now.taker_pays_funded = multiply(now.taker_gets_funded, now.quality)
          /\ now.is_fully_funded <=> (now.taker_gets_funded = now.TakerGets)

\* The last step ended a same-owner iteration on the leg-one offer that is
\* still current.
AfterSameOwnerPair(e) ==
  /\ step[e].op \in {"SkipLegTwo", "ReapplyClamp"}
  /\ step[e].one.Account = step[e].two.Account
  /\ step[e].i = legOnePointer[e]

\* C15: unclamp is scoped to one same-owner pair. At the start of an
\* iteration on a pair of two owners that follows a same-owner iteration on
\* the same leg-one offer, the offer's funded amount is its clamped one:
\* reapplying the clamp would not change it.
C15_UnclampScoped ==
  \A e \in Engines :
    (pc[e] = "loop" /\ Live(e) /\ AfterSameOwnerPair(e)
       /\ CurOne(e).Account # CurTwo(e).Account) =>
      getOfferTakerGetsFunded(CurOne(e)) =
        getOfferTakerGetsFunded(
          clampLegOneOwnerFunds(CurOne(e), ownerFundsLeftover[e])[1])

\* The smaller of two amounts.
Min(a, b) == IF compareTo(a, b) <= 0 THEN a ELSE b

\* The unclamp of a same-owner iteration snapshots the funded amount and
\* lifts it to the nominal amount.
UnclampSnapshots(e) ==
  step[e].op = "Unclamp" =>
    LET now == LegOne(e)[step[e].i + 1]
    IN  /\ now.initTakerGetsFunded = step[e].one.taker_gets_funded
        /\ now.taker_gets_funded = now.TakerGets

\* With the unclamped g1 above p2 > 0, the nominal amount is reduced by p2
\* and the nominal pays recomputed at the unchanged quality.
NominalReduced(e) ==
  step[e].op = "ClampedLegOneSameOwner" =>
    LET now == LegOne(e)[step[e].i + 1]
    IN  /\ now.TakerGets =
              subtract(step[e].one.TakerGets, step[e].two.taker_pays_funded)
        /\ now.quality = step[e].one.quality
        /\ now.TakerPays = multiply(now.TakerGets, now.quality)
        /\ now.initTakerGetsFunded = step[e].one.initTakerGetsFunded

\* The same-owner iteration has ended on a leg-one offer of nominal amount
\* `nominal` snapshotted at `init`: the offer is funded at the smaller of
\* the two and the owner's leftover has grown by the excess of init.
Reconciled(e, nominal, init) ==
  LET now == LegOne(e)[step[e].i + 1]
      excess == subtract(init, nominal)
  IN  /\ now.TakerGets = nominal
      /\ now.taker_gets_funded = Min(init, nominal)
      /\ Leftover(ownerFundsLeftover[e], now.Account) =
            add(Leftover(step[e].ledger, now.Account),
                IF compareTo(excess, Zero) > 0 THEN excess ELSE Zero)

\* C16: same-owner clamp. On a pair of one owner with the unclamped g1 (the
\* nominal amount) above p2, the nominal amount is reduced by exactly p2 at
\* the unchanged quality; when the iteration ends the funded amount is
\* min(initFunded, reduced nominal) and the leftover has grown by
\* max(0, initFunded - reduced nominal), initFunded being the amount the
\* unclamp of that iteration snapshotted.
C16_SameOwnerClamp ==
  \A e \in Engines :
    Running(e) =>
      /\ UnclampSnapshots(e)
      /\ NominalReduced(e)
      /\ step[e].op = "ReapplyClamp" =>
            Reconciled(e, step[e].one.TakerGets, step[e].one.initTakerGetsFunded)
      /\ (step[e].op = "SkipLegTwo" /\ step[e].one.Account = step[e].two.Account) =>
            Reconciled(e, subtract(step[e].one.TakerGets, step[e].two.taker_pays_funded),
                       step[e].one.initTakerGetsFunded)

\* The part of C16 with p2 > 0: the pair goes through the clamp.
SameOwnerClampNonZero ==
  \A e \in Engines :
    Running(e) =>
      /\ UnclampSnapshots(e)
      /\ NominalReduced(e)
      /\ step[e].op = "ReapplyClamp" =>
            Reconciled(e, step[e].one.TakerGets, step[e].one.initTakerGetsFunded)

\* C17: leg-two surplus. A comparison with p2 > g1 > 0 emits takerGets =
\* g1 / quality(L2) and takerPays = L1.takerPaysFunded, reduces L2's funded
\* gets by the emitted takerGets and its funded pays by g1, both staying
\* above zero, advances only the leg-one pointer and leaves the leftover
\* ledger alone, so the same L2 meets the next leg-one offer.
C17_LegTwoSurplus ==
  \A e \in Engines :
    (Running(e) /\ step[e].op \in CompareOps
       /\ ~is_zero(step[e].one.taker_gets_funded)
       /\ compareTo(step[e].one.taker_gets_funded,
                    step[e].two.taker_pays_funded) < 0) =>
      LET one == step[e].one
          two == step[e].two
          now == LegTwo(e)[step[e].j + 1]
          takerGets == divide(one.taker_gets_funded, two.quality)
      IN  /\ step[e].op = "ClampedLegTwo"
          /\ Len(offersAutobridged[e]) = step[e].emitted + 1
          /\ LastOffer(e).TakerGets.value = takerGets
          /\ LastOffer(e).TakerPays.value = one.taker_pays_funded
          /\ now.taker_gets_funded = subtract(two.taker_gets_funded, takerGets)
          /\ now.taker_pays_funded =
                subtract(two.taker_pays_funded, one.taker_gets_funded)
          /\ compareTo(now.taker_gets_funded, Zero) > 0
          /\ compareTo(now.taker_pays_funded, Zero) > 0
          /\ legOnePointer[e] = step[e].i + 1
          /\ legTwoPointer[e] = step[e].j
          /\ ownerFundsLeftover[e] = step[e].ledger
          /\ LegOne(e)[step[e].i + 1] = one

\* A leg-two offer reduced by one leg-one offer meets the next one.
C17_Witness ==
  \E e \in Engines :
    /\ step[e].op = "ClampedLegTwo"
    /\ pc[e] = "loop"
    /\ Live(e)
    /\ compareTo(CurTwo(e).taker_pays_funded, Zero) > 0
    /\ CurTwo(e).taker_pays_funded # step[e].two.taker_pays_funded

\* 0 <= takerGetsFunded <= nominal takerGets.
FundedWithinNominal(offer) ==
  /\ compareTo(getOfferTakerGetsFunded(offer), Zero) >= 0
  /\ compareTo(getOfferTakerGetsFunded(offer), getOfferTakerGets(offer)) <= 0

\* The input offers are funded within their nominal amounts, at their
\* qualities.
FundedInput(e) ==
  /\ FundedAtQuality(snapshot[e][1]) /\ FundedAtQuality(snapshot[e][2])
  /\ \A k \in DOMAIN snapshot[e][1] : FundedWithinNominal(snapshot[e][1][k])
  /\ \A k \in DOMAIN snapshot[e][2] : FundedWithinNominal(snapshot[e][2][k])

\* Every offer of both legs but leg-one offer i is funded within its
\* nominal amount; i = -1 leaves none out.
AllWithinNominalBut(e, i) ==
  /\ \A k \in DOMAIN LegOne(e) : k # i + 1 => FundedWithinNominal(LegOne(e)[k])
  /\ \A k \in DOMAIN LegTwo(e) : FundedWithinNominal(LegTwo(e)[k])

\* C18 as stated: funded never exceeds nominal. In every state of a
\* calculate() run on funded input, every offer of both legs has
\* 0 <= takerGetsFunded <= nominal takerGets.
C18_Original ==
  \A e \in Engines :
    (Running(e) /\ FundedInput(e)) => AllWithinNominalBut(e, -1)

\* C18 as amended: the same in every state but the one inside the
\* same-owner clamp of leg one, between the reduction of the nominal amount
\* and the reapplication of the clamp, where the current leg-one offer is
\* still funded at its previous nominal amount and every other offer is
\* within its nominal amount.
C18_FundedWithinNominal ==
  \A e \in Engines :
    (Running(e) /\ FundedInput(e)) =>
      IF pc[e] = "clamp"
      THEN /\ AllWithinNominalBut(e, legOnePointer[e])
           /\ getOfferTakerGetsFunded(CurOne(e)) = getOfferTakerGets(step[e].one)
      ELSE AllWithinNominalBut(e, -1)

\* The clamp has just capped an offer at its reduced nominal amount, below
\* what its owner had funded.
C18_Witness ==
  \E e \in Engines :
    /\ step[e].op = "ReapplyClamp"
    /\ FundedInput(e)
    /\ LET now == LegOne(e)[step[e].i + 1]
       IN  /\ now.taker_gets_funded = now.TakerGets
           /\ compareTo(now.initTakerGetsFunded, now.TakerGets) > 0

\* C19: leftover ledger frame. The ledger is empty when calculate() starts;
\* the same-owner clamp step only increases, and the top-up step only
\* decreases, the entry of the current leg-one offer's account and leaves
\* every other entry alone; every other step leaves the whole ledger
\* unchanged.
C19_LedgerFrame ==
  \A e \in Engines :
    Running(e) =>
      LET now == ownerFundsLeftover[e]
      IN  CASE step[e].op = "Calculate" -> now = EmptyLedger
            [] step[e].op = "ReapplyClamp" ->
                 \A a \in Accounts :
                   IF a = step[e].one.Account
                   THEN compareTo(Leftover(now, a), Leftover(step[e].ledger, a)) >= 0
                   ELSE Leftover(now, a) = Leftover(step[e].ledger, a)
            [] step[e].op = "TopUp" ->
                 \A a \in Accounts :
                   IF a = step[e].one.Account
                   THEN compareTo(Leftover(now, a), Leftover(step[e].ledger, a)) <= 0
                   ELSE Leftover(now, a) = Leftover(step[e].ledger, a)
            [] OTHER -> now = step[e].ledger

\* A top-up has taken from a leftover that a clamp had credited.
C19_Witness ==
  \E e \in Engines :
    /\ step[e].op = "TopUp"
    /\ compareTo(Leftover(ownerFundsLeftover[e], step[e].one.Account),
                 Leftover(step[e].ledger, step[e].one.Account)) < 0

RECURSIVE Consumed(_, _, _)
\* Bridge amount the first k emitted offers took from leg-one offer i, in
\* pairs of one owner or two.
Consumed(ps, i, k) ==
  IF k = 0 THEN Zero
  ELSE add(Consumed(ps, i, k - 1), IF ps[k].i = i THEN ps[k].bridge ELSE Zero)

\* C20: nominal cap over a whole run. The bridge amounts of all the offers
\* emitted from one leg-one offer in a calculate() run add up to at most
\* the nominal takerGets the offer had at construction.
C20_NominalCap ==
  \A e \in Engines :
    (Built(e) /\ Len(returned[e]) <= 1 /\ step[e].op # "Calculate") =>
      \A k \in DOMAIN snapshot[e][1] :
        compareTo(Consumed(pairs[e], k - 1, Len(pairs[e])),
                  getOfferTakerGets(snapshot[e][1][k])) <= 0

====
